---- MODULE Spec2Model ----
(***************************************************************************)
(* Model of src/renderer/rects.rs: the Rects accumulator that merges runs  *)
(* of underlined / struck-out cells into rectangles, and create_rect, the  *)
(* mapping of a run to pixel space.                                        *)
(*                                                                         *)
(* Numbers that are f32 in the source are fixed-point here: an integer n   *)
(* stands for n / FP pixels.  round() is f32::round, which rounds halves   *)
(* away from zero.                                                         *)
(***************************************************************************)
EXTENDS Integers, Sequences, FiniteSets, TLC

(* ------------------------------ bounds -------------------------------- *)
\* units per pixel of the fixed-point numbers
FP == 4
\* update_lines and push calls per tracker
MaxCalls == 3

(* ------------------------------ values -------------------------------- *)
UNDERLINE == "UNDERLINE"
STRIKEOUT == "STRIKEOUT"
BOLD == "BOLD"

Rgbs == {"red", "blue"}

\* the foregrounds and flag sets cells carry: no decoration, one, both, and
\* both in another colour; BOLD is a flag Rects keeps no run for
Styles ==
  {<<"red", {BOLD}>>, <<"red", {UNDERLINE}>>,
   <<"red", {UNDERLINE, STRIKEOUT}>>, <<"blue", {UNDERLINE, STRIKEOUT, BOLD}>>}

\* the grid positions of cells
Lines == {0, 1}
Columns == {0, 1, 2}

\* Option<T>: None, or Some(v)
None == <<>>
Some(v) == <<v>>
IsSome(o) == Len(o) = 1
unwrap(o) == o[1]

\* Flags::contains
contains(flags, flag) == flag \in flags

\* a RenderableCell; idx is the position of the cell in the stream (ghost)
RenderableCell(line, column, fg, flags, idx) ==
  [line |-> line, column |-> column, fg |-> fg, flags |-> flags, idx |-> idx]

CellsAt(idx) ==
  { RenderableCell(l, c, st[1], st[2], idx) :
      l \in Lines, c \in Columns, st \in Styles }

\* Rect::new
Rect(x, y, width, height) == [x |-> x, y |-> y, width |-> width, height |-> height]

\* the SizeInfo and Metrics a tracker borrows
SizeInfo(cell_width, cell_height, padding_x, padding_y) ==
  [cell_width |-> cell_width, cell_height |-> cell_height,
   padding_x |-> padding_x, padding_y |-> padding_y]

Metrics(up, ut, sp, st, descent) ==
  [underline_position |-> up, underline_thickness |-> ut,
   strikeout_position |-> sp, strikeout_thickness |-> st, descent |-> descent]

Max(a, b) == IF a >= b THEN a ELSE b
Abs(a) == IF a >= 0 THEN a ELSE -a

\* f32::round of the number n/d (d > 0): nearest integer, halves away from zero
round(n, d) ==
  IF n >= 0 THEN (2 * n + d) \div (2 * d) ELSE -((2 * (-n) + d) \div (2 * d))

(* ---------------------------- create_rect ----------------------------- *)
\* create_rect without "make sure lines are always visible"
create_rect_thin(start, end, flag, metrics, size) ==
  LET start_x == start.column * size.cell_width
      end_x == (end.column + 1) * size.cell_width
      position == IF flag = UNDERLINE THEN metrics.underline_position
                  ELSE metrics.strikeout_position
      height == IF flag = UNDERLINE THEN metrics.underline_thickness
                ELSE metrics.strikeout_thickness
      cell_bottom == (start.line + 1) * size.cell_height
      baseline == cell_bottom + metrics.descent
      y0 == 2 * (baseline - position) - height
      max_y == 2 * (cell_bottom - height)
      y == IF y0 > max_y THEN max_y ELSE y0
  IN  [rect |-> [x |-> start_x + size.padding_x,
                 y |-> FP * ((2 * Abs(y) + 2 * FP) \div (4 * FP))
                         * (IF y >= 0 THEN 1 ELSE -1) + size.padding_y,
                 width |-> end_x - start_x,
                 height |-> FP * ((2 * Abs(height) + FP) \div (2 * FP))
                              * (IF height >= 0 THEN 1 ELSE -1)],
       color |-> start.fg]

\* create_rect that clamps y to the bottom of the cell, not to the bottom less
\* the height
create_rect_low(start, end, flag, metrics, size) ==
  LET start_x == start.column * size.cell_width
      end_x == (end.column + 1) * size.cell_width
      position == IF flag = UNDERLINE THEN metrics.underline_position
                  ELSE metrics.strikeout_position
      thickness == IF flag = UNDERLINE THEN metrics.underline_thickness
                   ELSE metrics.strikeout_thickness
      height == IF thickness >= FP THEN thickness ELSE FP
      cell_bottom == (start.line + 1) * size.cell_height
      baseline == cell_bottom + metrics.descent
      y0 == 2 * (baseline - position) - height
      max_y == 2 * cell_bottom
      y == IF y0 > max_y THEN max_y ELSE y0
  IN  [rect |-> [x |-> start_x + size.padding_x,
                 y |-> FP * ((2 * Abs(y) + 2 * FP) \div (4 * FP))
                         * (IF y >= 0 THEN 1 ELSE -1) + size.padding_y,
                 width |-> end_x - start_x,
                 height |-> FP * ((2 * height + FP) \div (2 * FP))],
       color |-> start.fg]

\* the flags create_rect has no metrics for (the unimplemented!() arm)
InvalidFlag(flag) == flag \notin {UNDERLINE, STRIKEOUT}

create_rect(start, end, flag, metrics, size) ==
  LET start_x == start.column * size.cell_width
      end_x == (end.column + 1) * size.cell_width
      width == end_x - start_x
      position == IF flag = UNDERLINE THEN metrics.underline_position
                  ELSE metrics.strikeout_position
      thickness == IF flag = UNDERLINE THEN metrics.underline_thickness
                   ELSE metrics.strikeout_thickness
      \* height.max(1.)
      height == Max(thickness, FP)
      cell_bottom == (start.line + 1) * size.cell_height
      baseline == cell_bottom + metrics.descent
      \* y and max_y in half units (n stands for n / (2 * FP) pixels), so that
      \* height / 2. is exact
      y0 == 2 * (baseline - position) - height
      max_y == 2 * (cell_bottom - height)
      y == IF y0 > max_y THEN max_y ELSE y0
  IN  [rect |-> Rect(start_x + size.padding_x,
                     FP * round(y, 2 * FP) + size.padding_y,
                     width,
                     FP * round(height, FP)),
       color |-> start.fg]

(* ------------------------------- Rects -------------------------------- *)
\* new with a run kept for a flag create_rect has no metrics for
new_with_bold ==
  [inner |-> <<>>,
   last_cell |-> None,
   last_starts |-> [flag \in {UNDERLINE, STRIKEOUT, BOLD} |-> None],
   origin |-> <<>>,
   fault |-> "none"]

\* Rects::new.  Beside the fields of the struct, a tracker value carries two
\* ghosts: origin, parallel to inner, names the call that appended each
\* entry, and fault records a panic.
new ==
  [inner |-> <<>>,
   last_cell |-> None,
   last_starts |-> [flag \in {UNDERLINE, STRIKEOUT} |-> None],
   origin |-> <<>>,
   fault |-> "none"]

\* the iteration orders of a HashMap with the keys S
Orders(S) ==
  { o \in [1..Cardinality(S) -> S] : \A i, j \in DOMAIN o : o[i] = o[j] => i = j }

\* NoChange with adjacency tested against the start of the run
NoChangeFromStart(cell, start, last, flag) ==
  /\ cell.line = start.line
  /\ contains(cell.flags, flag)
  /\ cell.fg = start.fg
  /\ cell.column = start.column + 1

\* NoChange without the test of the column
NoChangeAnyColumn(cell, start, last, flag) ==
  /\ cell.line = start.line
  /\ contains(cell.flags, flag)
  /\ cell.fg = start.fg

\* NoChange without the test of the foreground
NoChangeAnyColor(cell, start, last, flag) ==
  /\ cell.line = start.line
  /\ contains(cell.flags, flag)
  /\ cell.column = last.column + 1

\* NoChange without the test of the line
NoChangeAnyLine(cell, start, last, flag) ==
  /\ contains(cell.flags, flag)
  /\ cell.fg = start.fg
  /\ cell.column = last.column + 1

\* NoChange with the flags compared as a whole
NoChangeSameFlags(cell, start, last, flag) ==
  /\ cell.line = start.line
  /\ cell.flags = start.flags
  /\ cell.fg = start.fg
  /\ cell.column = last.column + 1

\* the test of update_lines for "no change in line"
NoChange(cell, start, last, flag) ==
  /\ cell.line = start.line
  /\ contains(cell.flags, flag)
  /\ cell.fg = start.fg
  /\ cell.column = last.column + 1

\* self.inner.push(create_rect(start, end, flag, ..)), with its ghosts
push_rect(self, by, start, end, flag, metrics, size) ==
  IF InvalidFlag(flag)
  THEN [self EXCEPT !.fault = "unimplemented"]
  ELSE [self EXCEPT
          !.inner = Append(@, create_rect(start, end, flag, metrics, size)),
          !.origin = Append(@, [by |-> by, flag |-> flag,
                                start |-> start, end |-> end])]

\* "Start a new line if the flag is present"
new_start(cell, flag) == IF contains(cell.flags, flag) THEN Some(cell) ELSE None

\* update_flag that draws a finished line up to the cell received
update_flag_to_cell(self, flag, cell, metrics, size) ==
  LET start_cell == self.last_starts[flag] IN
  IF IsSome(start_cell)
  THEN LET start == unwrap(start_cell)
           last == unwrap(self.last_cell)
       IN  IF NoChange(cell, start, last, flag)
           THEN self
           ELSE [push_rect(self, "update_lines", start, cell, flag, metrics, size)
                   EXCEPT !.last_starts[flag] = new_start(cell, flag)]
  ELSE [self EXCEPT !.last_starts[flag] = new_start(cell, flag)]

\* update_flag that records the cell as the last one inside the loop
update_flag_sets_last(self, flag, cell, metrics, size) ==
  LET start_cell == self.last_starts[flag]
      done == [self EXCEPT !.last_cell = Some(cell)]
  IN
  IF IsSome(start_cell)
  THEN LET start == unwrap(start_cell)
           last == unwrap(self.last_cell)
       IN  IF NoChange(cell, start, last, flag)
           THEN done
           ELSE [push_rect(done, "update_lines", start, last, flag, metrics, size)
                   EXCEPT !.last_starts[flag] = new_start(cell, flag)]
  ELSE [done EXCEPT !.last_starts[flag] = new_start(cell, flag)]

\* one iteration of the loop of update_lines
update_flag(self, flag, cell, metrics, size) ==
  LET start_cell == self.last_starts[flag] IN
  IF IsSome(start_cell)
  THEN IF ~IsSome(self.last_cell)
       THEN [self EXCEPT !.fault = "unwrap"]
       ELSE LET start == unwrap(start_cell)
                last == unwrap(self.last_cell)
            IN  IF NoChange(cell, start, last, flag)
                THEN self
                ELSE LET closed == push_rect(self, "update_lines", start, last,
                                             flag, metrics, size)
                     IN  IF closed.fault # "none" THEN closed
                         ELSE [closed EXCEPT
                                 !.last_starts[flag] = new_start(cell, flag)]
  ELSE [self EXCEPT !.last_starts[flag] = new_start(cell, flag)]

RECURSIVE update_loop(_, _, _, _, _, _)
update_loop(self, order, i, cell, metrics, size) ==
  IF i > Len(order) \/ self.fault # "none" THEN self
  ELSE update_loop(update_flag(self, order[i], cell, metrics, size),
                   order, i + 1, cell, metrics, size)

\* update_lines that does not record the cell as the last one
update_lines_forgets_last(self, order, cell, metrics, size) ==
  update_loop(self, order, 1, cell, metrics, size)

\* Rects::update_lines
update_lines(self, order, cell, metrics, size) ==
  LET after == update_loop(self, order, 1, cell, metrics, size)
  IN  IF after.fault # "none" THEN after
      ELSE [after EXCEPT !.last_cell = Some(cell)]

\* rects_flag that draws the pending line up to its own start
rects_flag_to_start(self, flag, metrics, size) ==
  LET start_cell == self.last_starts[flag] IN
  IF IsSome(start_cell)
  THEN push_rect(self, "rects", unwrap(start_cell), unwrap(start_cell),
                 flag, metrics, size)
  ELSE self

\* one iteration of the loop of rects
rects_flag(self, flag, metrics, size) ==
  LET start_cell == self.last_starts[flag] IN
  IF IsSome(start_cell)
  THEN IF ~IsSome(self.last_cell)
       THEN [self EXCEPT !.fault = "unwrap"]
       ELSE push_rect(self, "rects", unwrap(start_cell), unwrap(self.last_cell),
                      flag, metrics, size)
  ELSE self

RECURSIVE rects_loop(_, _, _, _, _)
rects_loop(self, order, i, metrics, size) ==
  IF i > Len(order) \/ self.fault # "none" THEN self
  ELSE rects_loop(rects_flag(self, order[i], metrics, size),
                  order, i + 1, metrics, size)

\* Rects::rects; the list returned is the inner of the result
rects(self, order, metrics, size) == rects_loop(self, order, 1, metrics, size)

\* push that also ends the runs that are open
push_ends_runs(self, rect, color) ==
  [self EXCEPT !.inner = Append(@, [rect |-> rect, color |-> color]),
               !.origin = Append(@, [by |-> "push", flag |-> "none"]),
               !.last_starts = [flag \in DOMAIN @ |-> None]]

\* push that puts the pair at the front of the list
push_front(self, rect, color) ==
  [self EXCEPT !.inner = <<[rect |-> rect, color |-> color]>> \o @,
               !.origin = <<[by |-> "push", flag |-> "none"]>> \o @]

\* Rects::push
push(self, rect, color) ==
  [self EXCEPT !.inner = Append(@, [rect |-> rect, color |-> color]),
               !.origin = Append(@, [by |-> "push", flag |-> "none"])]

(* --------------------------- the state machine ------------------------ *)
VARIABLES
  inner,        \* Rects.inner
  last_starts,  \* Rects.last_starts
  last_cell,    \* Rects.last_cell
  metrics,      \* Rects.metrics
  size,         \* Rects.size
  order,        \* the iteration order of last_starts
  pc,           \* "live"; "done" once rects() consumed the tracker; "panicked"
  fault,        \* the panic, if any
  origin,       \* ghost: the call that appended each entry of inner
  cells,        \* ghost: the cells update_lines received
  pushed        \* ghost: the pairs push received

vars == <<inner, last_starts, last_cell, metrics, size, order, pc, fault,
          origin, cells, pushed>>

\* the tracker value held by the variables
Self ==
  [inner |-> inner, last_cell |-> last_cell, last_starts |-> last_starts,
   origin |-> origin, fault |-> fault]

Store(self) ==
  /\ inner' = self.inner
  /\ last_cell' = self.last_cell
  /\ last_starts' = self.last_starts
  /\ origin' = self.origin
  /\ fault' = self.fault

\* the sizes and metrics of the trackers of Spec, in 1/FP pixels
TrackerSizes == {SizeInfo(9 * FP + 2, 17 * FP, 2 * FP, 3 * FP)}
TrackerMetrics == {Metrics(-2 * FP, FP, 5 * FP, FP + 2, -3 * FP)}

\* the rectangles push receives
PushRects == {Rect(FP, FP, 3 * FP, 5 * FP)}

Init ==
  /\ inner = new.inner
  /\ last_cell = new.last_cell
  /\ last_starts = new.last_starts
  /\ origin = new.origin
  /\ fault = new.fault
  /\ metrics \in TrackerMetrics
  /\ size \in TrackerSizes
  /\ order \in Orders(DOMAIN new.last_starts)
  /\ pc = "live"
  /\ cells = <<>>
  /\ pushed = <<>>

UpdateLines ==
  /\ pc = "live"
  /\ Len(cells) + Len(pushed) < MaxCalls
  /\ \E cell \in CellsAt(Len(cells) + 1) :
       LET after == update_lines(Self, order, cell, metrics, size) IN
       /\ Store(after)
       /\ pc' = IF after.fault # "none" THEN "panicked" ELSE "live"
       /\ cells' = Append(cells, cell)
  /\ UNCHANGED <<metrics, size, order, pushed>>

Push ==
  /\ pc = "live"
  /\ Len(cells) + Len(pushed) < MaxCalls
  /\ \E rect \in PushRects, color \in {"blue"} :
       /\ Store(push(Self, rect, color))
       /\ pushed' = Append(pushed, [rect |-> rect, color |-> color])
  /\ UNCHANGED <<metrics, size, order, pc, cells>>

RectsCall ==
  /\ pc = "live"
  /\ LET after == rects(Self, order, metrics, size) IN
       /\ Store(after)
       /\ pc' = IF after.fault # "none" THEN "panicked" ELSE "done"
  /\ UNCHANGED <<metrics, size, order, cells, pushed>>

Next == UpdateLines \/ Push \/ RectsCall

Spec == Init /\ [][Next]_vars

(* ------------------- create_rect as a pure function ------------------- *)
\* Metrics and sizes over which create_rect is checked, in 1/FP pixels: every
\* underline thickness from -1 to 3 pixels, every underline position from -2
\* to 2 pixels, whole and fractional cell heights.
GeomThickness == (-FP)..(3 * FP)
GeomPosition == (-2 * FP)..(2 * FP)
GeomDescent == {-3 * FP - 1, -FP, 0}
GeomCellHeight == {16 * FP, 16 * FP + 1, 16 * FP + 2}
GeomPaddingY == {0, FP + 1}

GeomMetrics ==
  { Metrics(up, ut, sp, st, d) :
      up \in GeomPosition, ut \in GeomThickness,
      sp \in {5 * FP}, st \in {FP - 1, 2 * FP + 2}, d \in GeomDescent }

GeomSizes ==
  { SizeInfo(9 * FP + 2, ch, 2 * FP, py) : ch \in GeomCellHeight, py \in GeomPaddingY }

InitGeom ==
  /\ inner = new.inner
  /\ last_cell = new.last_cell
  /\ last_starts = new.last_starts
  /\ origin = new.origin
  /\ fault = new.fault
  /\ metrics \in GeomMetrics
  /\ size \in GeomSizes
  /\ order \in Orders(DOMAIN new.last_starts)
  /\ pc = "live"
  /\ cells = <<>>
  /\ pushed = <<>>

\* one call of create_rect, as rects() makes it for a run from start to end
MapRun ==
  /\ pc = "live"
  /\ \E line \in Lines, flag \in DOMAIN last_starts :
       LET start == RenderableCell(line, 0, "red", {UNDERLINE, STRIKEOUT}, 1)
           end == RenderableCell(line, 1, "red", {UNDERLINE, STRIKEOUT}, 2)
       IN  Store(push_rect(Self, "rects", start, end, flag, metrics, size))
  /\ pc' = "done"
  /\ UNCHANGED <<metrics, size, order, cells, pushed>>

NextGeom == MapRun

SpecGeom == InitGeom /\ [][NextGeom]_vars

(* ------------------------------ properties --------------------------- *)
\* the positions in a list of origins that hold rectangles of runs of kind k
RunRects(org, k) == { i \in DOMAIN org : org[i].by # "push" /\ org[i].flag = k }

\* a step that is a call of update_lines, and the cell it received
Fed == Len(cells') = Len(cells) + 1
Received == cells'[Len(cells')]

\* the rectangles a step appended for kind k
Appended(k) == { i \in RunRects(origin', k) : i > Len(origin) }

\* the left edge and the width of a rectangle from column a to column b
LeftOf(a) == a * size.cell_width + size.padding_x
WidthOf(a, b) == (b + 1 - a) * size.cell_width

\* the cells received so far share line and foreground, all carry flag k and
\* have consecutive columns
UniformRun(k) ==
  /\ Len(cells) >= 1
  /\ \A i \in DOMAIN cells :
       /\ cells[i].line = cells[1].line
       /\ cells[i].fg = cells[1].fg
       /\ contains(cells[i].flags, k)
       /\ cells[i].column = cells[1].column + (i - 1)

\* C1: a tracker fed only n cells of one line and foreground, all with flag k,
\* at consecutive columns c .. c+n-1, holds no rectangle for k until rects(),
\* and rects() returns exactly one, with x = c * cell_width + padding_x and
\* width n * cell_width.
RunContinuity ==
  \A k \in {UNDERLINE, STRIKEOUT} :
    UniformRun(k) =>
      IF pc = "done"
      THEN /\ Cardinality(RunRects(origin, k)) = 1
           /\ \A i \in RunRects(origin, k) :
                /\ origin[i].by = "rects"
                /\ inner[i].rect.x = LeftOf(cells[1].column)
                /\ inner[i].rect.width = Len(cells) * size.cell_width
      ELSE RunRects(origin, k) = {}

RunContinuityWitness ==
  /\ pc = "done"
  /\ Len(cells) = MaxCalls
  /\ UniformRun(UNDERLINE)
  /\ cells[1].column = 0
  /\ \E i \in RunRects(origin, UNDERLINE) :
       inner[i].rect.width = MaxCalls * size.cell_width

\* C2: when a run of k is open and update_lines receives a cell with flag k,
\* the line and the foreground of the run's start, and a column other than
\* the last cell's column + 1, the call appends one rectangle for k, from the
\* start to the last cell seen, and opens a run at the received cell; two
\* such cells alone yield two rectangles after rects().
GapStep ==
  Fed =>
    \A k \in DOMAIN last_starts :
      ( /\ IsSome(last_starts[k]) /\ IsSome(last_cell)
        /\ contains(Received.flags, k)
        /\ Received.line = unwrap(last_starts[k]).line
        /\ Received.fg = unwrap(last_starts[k]).fg
        /\ Received.column # unwrap(last_cell).column + 1 )
      => /\ Cardinality(Appended(k)) = 1
         /\ \A i \in Appended(k) :
              /\ origin'[i].start = unwrap(last_starts[k])
              /\ origin'[i].end = unwrap(last_cell)
              /\ inner'[i].rect.x = LeftOf(unwrap(last_starts[k]).column)
              /\ inner'[i].rect.width =
                   WidthOf(unwrap(last_starts[k]).column, unwrap(last_cell).column)
         /\ last_starts'[k] = Some(Received)

GapPair(k) ==
  /\ Len(cells) = 2
  /\ contains(cells[1].flags, k) /\ contains(cells[2].flags, k)
  /\ cells[2].line = cells[1].line
  /\ cells[2].fg = cells[1].fg
  /\ cells[2].column # cells[1].column + 1

GapFinal ==
  \A k \in {UNDERLINE, STRIKEOUT} :
    (pc = "done" /\ GapPair(k)) =>
      /\ Cardinality(RunRects(origin, k)) = 2
      /\ \A i \in RunRects(origin, k) : inner[i].rect.width = size.cell_width

\* C2 (run break on gap): GapStep holds of every step, GapFinal of every state
RunBreakOnGap == [][GapStep]_vars /\ []GapFinal

RunBreakOnGapWitness ==
  /\ pc = "done"
  /\ GapPair(UNDERLINE)
  /\ cells[1].column = 0 /\ cells[2].column = 2
  /\ Cardinality(RunRects(origin, UNDERLINE)) = 2

\* C3: when a run of k is open and update_lines receives a cell on the run's
\* line, in the column after the last cell, with flag k and a foreground
\* other than the start's, the call appends exactly one rectangle for k (from
\* the start to the last cell seen, in the start's foreground) and the run of
\* k becomes open at the received cell.
ColorStep ==
  Fed =>
    \A k \in DOMAIN last_starts :
      ( /\ IsSome(last_starts[k]) /\ IsSome(last_cell)
        /\ contains(Received.flags, k)
        /\ Received.line = unwrap(last_starts[k]).line
        /\ Received.column = unwrap(last_cell).column + 1
        /\ Received.fg # unwrap(last_starts[k]).fg )
      => /\ Cardinality(Appended(k)) = 1
         /\ \A i \in Appended(k) :
              /\ origin'[i].by = "update_lines"
              /\ origin'[i].end = unwrap(last_cell)
              /\ inner'[i].color = unwrap(last_starts[k]).fg
              /\ inner'[i].rect.x = LeftOf(unwrap(last_starts[k]).column)
              /\ inner'[i].rect.width =
                   WidthOf(unwrap(last_starts[k]).column, unwrap(last_cell).column)
         /\ last_starts'[k] = Some(Received)

\* C3 (run break on color change): ColorStep holds of every step
RunBreakOnColorChange == [][ColorStep]_vars

RunBreakOnColorChangeWitness ==
  /\ pc = "live"
  /\ Len(cells) = 3
  /\ \A i \in 1..3 : contains(cells[i].flags, UNDERLINE) /\ cells[i].line = 0
                     /\ cells[i].column = i - 1
  /\ cells[1].fg = "red" /\ cells[2].fg = "red" /\ cells[3].fg = "blue"
  /\ last_starts[UNDERLINE] = Some(cells[3])
  /\ \E i \in RunRects(origin, UNDERLINE) :
       inner[i].color = "red" /\ inner[i].rect.width = 2 * size.cell_width

\* C4: every cell of an emitted run lies on the line of the run's start: the
\* cells received from the start to the end of a rectangle's run all have
\* the start's line.
RunBreakOnLineChange ==
  \A i \in DOMAIN origin :
    origin[i].by # "push" =>
      /\ origin[i].end.line = origin[i].start.line
      /\ \A j \in origin[i].start.idx .. origin[i].end.idx :
           cells[j].line = origin[i].start.line

RunBreakOnLineChangeWitness ==
  /\ pc = "done"
  /\ Len(cells) = 2
  /\ contains(cells[1].flags, UNDERLINE) /\ contains(cells[2].flags, UNDERLINE)
  /\ cells[1].fg = cells[2].fg
  /\ cells[1].line # cells[2].line
  /\ cells[2].column = cells[1].column + 1
  /\ Cardinality(RunRects(origin, UNDERLINE)) = 2

\* a step that is the call of rects()
Flushed == pc = "live" /\ pc' = "done"

\* C5: rects() appends exactly one rectangle for every kind whose run is
\* open, from the run's start to the last cell seen and in the start's
\* foreground, and none for a kind whose run is closed.
FlushStep ==
  Flushed =>
    /\ \A k \in DOMAIN last_starts :
         IF IsSome(last_starts[k])
         THEN /\ IsSome(last_cell)
              /\ Cardinality(Appended(k)) = 1
              /\ \A i \in Appended(k) :
                   /\ origin'[i].start = unwrap(last_starts[k])
                   /\ origin'[i].end = unwrap(last_cell)
                   /\ inner'[i].color = unwrap(last_starts[k]).fg
                   /\ inner'[i].rect.x = LeftOf(unwrap(last_starts[k]).column)
                   /\ inner'[i].rect.width =
                        WidthOf(unwrap(last_starts[k]).column, unwrap(last_cell).column)
         ELSE Appended(k) = {}
    /\ Len(inner') = Len(inner)
         + Cardinality({ k \in DOMAIN last_starts : IsSome(last_starts[k]) })

\* C5 (flush on finalize): FlushStep holds of every step
FlushOnFinalize == [][FlushStep]_vars

FlushOnFinalizeWitness ==
  /\ pc = "done"
  /\ Len(cells) = MaxCalls
  /\ UniformRun(UNDERLINE)
  /\ \A i \in DOMAIN cells : ~contains(cells[i].flags, STRIKEOUT)
  /\ RunRects(origin, STRIKEOUT) = {}
  /\ \E i \in RunRects(origin, UNDERLINE) :
       /\ origin[i].by = "rects"
       /\ origin[i].end = cells[MaxCalls]
       /\ inner[i].rect.width = MaxCalls * size.cell_width

\* the entries of a list that push appended (by = TRUE), or the others
RECURSIVE Pick(_, _, _)
Pick(list, org, by) ==
  IF list = <<>> THEN <<>>
  ELSE LET rest == Pick(Tail(list), Tail(org), by) IN
       IF (Head(org).by = "push") = by THEN <<Head(list)>> \o rest ELSE rest

\* the tracker after update_lines for each cell of a stream, without any push
RECURSIVE Feed(_, _, _, _, _)
Feed(self, ord, stream, m, sz) ==
  IF stream = <<>> THEN self
  ELSE Feed(update_lines(self, ord, Head(stream), m, sz), ord, Tail(stream), m, sz)

\* a step that is a call of push
Pushing == Len(pushed') = Len(pushed) + 1

\* C6: push appends exactly the pair it is given and leaves the runs and the
\* last cell alone; the pushed pairs are in the list unmodified, and the other
\* entries are those the same cells produce without any push.
PushStep ==
  Pushing =>
    /\ inner' = Append(inner, pushed'[Len(pushed')])
    /\ last_starts' = last_starts
    /\ last_cell' = last_cell

PushApart ==
  pc # "panicked" =>
    /\ Pick(inner, origin, TRUE) = pushed
    /\ LET alone == Feed(new, order, cells, metrics, size) IN
       Pick(inner, origin, FALSE) =
         IF pc = "done" THEN rects(alone, order, metrics, size).inner ELSE alone.inner

\* C6 (append independence): PushStep holds of every step, PushApart of every
\* state
AppendIndependence == [][PushStep]_vars /\ []PushApart

AppendIndependenceWitness ==
  /\ pc = "done"
  /\ Len(cells) = 2 /\ Len(pushed) = 1
  /\ Len(inner) = 3
  /\ origin[2].by = "push"
  /\ origin[3].by = "rects"
  /\ origin[3].start = cells[1] /\ origin[3].end = cells[2]

\* C7: no operation fails on an absent last cell: whenever a run is open the
\* last cell is present, no unwrap has failed, and rects() on a tracker that
\* received no cell returns the pushed pairs.
LastCellPresent ==
  /\ fault # "unwrap"
  /\ \A k \in DOMAIN last_starts : IsSome(last_starts[k]) => IsSome(last_cell)
  /\ (pc # "live" /\ cells = <<>>) => (pc = "done" /\ inner = pushed)

LastCellPresentWitness ==
  /\ pc = "done"
  /\ \E i \in DOMAIN origin : origin[i].by = "update_lines"
  /\ \E i \in DOMAIN origin : origin[i].by = "rects"

\* C8: create_rect is only called with UNDERLINE or STRIKEOUT, whatever flags
\* the cells carry: the unimplemented!() arm is never executed.
InvalidFlagUnreachable ==
  /\ fault # "unimplemented"
  /\ \A i \in DOMAIN origin :
       origin[i].by # "push" => origin[i].flag \in {UNDERLINE, STRIKEOUT}

InvalidFlagUnreachableWitness ==
  /\ pc = "done"
  /\ Len(cells) = 2
  /\ cells[1].flags = {UNDERLINE, STRIKEOUT, BOLD} /\ cells[2].flags = {BOLD}
  /\ Len(origin) = 2
  /\ \A i \in 1..2 : origin[i].by = "update_lines" /\ origin[i].start = cells[1]

\* the metric thickness of kind k
ThicknessOf(k) ==
  IF k = UNDERLINE THEN metrics.underline_thickness ELSE metrics.strikeout_thickness

\* C9: the bottom edge of every rectangle of a run, (y - padding_y) + height,
\* is at most the bottom of the cell row of the run's start,
\* (start.line + 1) * cell_height.
StrokeInsideCell ==
  \A i \in DOMAIN origin :
    origin[i].by # "push" =>
      (inner[i].rect.y - size.padding_y) + inner[i].rect.height
        <= (origin[i].start.line + 1) * size.cell_height

\* C10: the height of every rectangle of a run is round(max(thickness, 1)),
\* at least one pixel, and exactly one pixel for a thickness of at most one.
MinimumThickness ==
  \A i \in DOMAIN origin :
    origin[i].by # "push" =>
      LET t == ThicknessOf(origin[i].flag) IN
      /\ inner[i].rect.height >= FP
      /\ t <= FP => inner[i].rect.height = FP
      /\ t > FP => \E px \in 1..4 :
                     /\ inner[i].rect.height = px * FP
                     /\ 2 * Abs(t - px * FP) <= FP
                     /\ 2 * (t - px * FP) # FP

MinimumThicknessWitness ==
  /\ pc = "done"
  /\ metrics.underline_thickness = 1
  /\ \E i \in RunRects(origin, UNDERLINE) : inner[i].rect.height = FP


\* px is the number n / d (d > 0) rounded to the nearest integer, halves away
\* from zero
IsRounded(n, d, px) ==
  /\ 2 * Abs(n - px * d) <= d
  /\ n >= 0 => 2 * (n - px * d) # d
  /\ n < 0 => 2 * (px * d - n) # d

\* the position metric of kind k
PositionOf(k) ==
  IF k = UNDERLINE THEN metrics.underline_position ELSE metrics.strikeout_position

\* twice the y of a run's rectangle before the clamp, and twice the clamp:
\* 2 * (baseline - offset - thickness / 2) and 2 * (cell_bottom - thickness),
\* with the thickness raised to one pixel
Unclamped2(e) ==
  2 * ((e.start.line + 1) * size.cell_height + metrics.descent - PositionOf(e.flag))
    - Max(ThicknessOf(e.flag), FP)
Clamp2(e) ==
  2 * ((e.start.line + 1) * size.cell_height - Max(ThicknessOf(e.flag), FP))

\* C11: the y of every rectangle of a run is round(cell_bottom - thickness) +
\* padding_y when baseline - offset - thickness / 2 exceeds cell_bottom -
\* thickness, and round(baseline - offset - thickness / 2) + padding_y
\* otherwise.
ClampNearCellBottom ==
  \A i \in DOMAIN origin :
    origin[i].by # "push" =>
      \E px \in -1..40 :
        /\ inner[i].rect.y = FP * px + size.padding_y
        /\ IF Unclamped2(origin[i]) > Clamp2(origin[i])
           THEN IsRounded(Clamp2(origin[i]), 2 * FP, px)
           ELSE IsRounded(Unclamped2(origin[i]), 2 * FP, px)

ClampNearCellBottomWitness ==
  /\ pc = "done"
  /\ size.padding_y = FP + 1
  /\ size.cell_height = 16 * FP + 1
  /\ \E i \in RunRects(origin, UNDERLINE) :
       /\ origin[i].start.line = 0
       /\ Unclamped2(origin[i]) > Clamp2(origin[i]) + FP
       /\ ThicknessOf(UNDERLINE) = FP + 2
       /\ inner[i].rect.y = 15 * FP + size.padding_y


\* C12: in every state, for arbitrary cell streams, the start of every open
\* run is on the line of the last cell seen.
SingleLineRun ==
  \A k \in DOMAIN last_starts :
    IsSome(last_starts[k]) =>
      /\ IsSome(last_cell)
      /\ unwrap(last_starts[k]).line = unwrap(last_cell).line

SingleLineRunWitness ==
  /\ pc = "live"
  /\ Len(cells) = 3 /\ Len(pushed) = 0
  /\ cells[1].line = 1 /\ cells[2].line = 0 /\ cells[3].line = 0
  /\ cells[1].column = 0 /\ cells[2].column = 1 /\ cells[3].column = 2
  /\ \A i \in 1..3 : cells[i].fg = "red" /\ contains(cells[i].flags, UNDERLINE)
  /\ last_starts[UNDERLINE] = Some(cells[2])
  /\ last_cell = Some(cells[3])

\* a run of kind k opens at the i-th cell of the stream: the cell has flag k
\* and does not continue the cell before it
OpensAt(k, i) ==
  /\ contains(cells[i].flags, k)
  /\ i = 1 \/ ~ ( /\ contains(cells[i - 1].flags, k)
                  /\ cells[i - 1].line = cells[i].line
                  /\ cells[i - 1].fg = cells[i].fg
                  /\ cells[i].column = cells[i - 1].column + 1 )

\* a step in which the run of kind k that was open ends
LeavesOpen(k) ==
  /\ IsSome(last_starts[k])
  /\ pc = "live"
  /\ pc' = "done" \/ last_starts'[k] # last_starts[k]

\* C13: every step that ends an open run of k appends exactly one rectangle for
\* k: left edge, line and colour of the start, right edge of the last cell
\* seen before the call; no other step appends one.
ClosedRunStep ==
  \A k \in DOMAIN last_starts :
    IF LeavesOpen(k)
    THEN /\ Cardinality(Appended(k)) = 1
         /\ \A i \in Appended(k) :
              LET start == unwrap(last_starts[k]) IN
              /\ origin'[i].start = start
              /\ origin'[i].end = unwrap(last_cell)
              /\ inner'[i].color = start.fg
              /\ inner'[i].rect.x = LeftOf(start.column)
              /\ inner'[i].rect.width = WidthOf(start.column, unwrap(last_cell).column)
              /\ inner'[i].rect.y - size.padding_y >= start.line * size.cell_height
              /\ inner'[i].rect.y - size.padding_y < (start.line + 1) * size.cell_height
    ELSE Appended(k) = {}

\* ... and after rects() there are as many rectangles for k as runs of k opened
ClosedRunCount ==
  pc = "done" =>
    \A k \in DOMAIN last_starts :
      Cardinality(RunRects(origin, k))
        = Cardinality({ i \in DOMAIN cells : OpensAt(k, i) })

\* C13 (one rectangle per closed run): ClosedRunStep holds of every step,
\* ClosedRunCount of every state
OneRectPerClosedRun == [][ClosedRunStep]_vars /\ []ClosedRunCount

OneRectPerClosedRunWitness ==
  /\ pc = "done"
  /\ Len(cells) = 3
  /\ OpensAt(UNDERLINE, 1) /\ ~OpensAt(UNDERLINE, 2) /\ OpensAt(UNDERLINE, 3)
  /\ cells[3].column = 0
  /\ Cardinality(RunRects(origin, UNDERLINE)) = 2
  /\ \E i \in RunRects(origin, UNDERLINE) :
       /\ origin[i].by = "update_lines"
       /\ origin[i].start = cells[1] /\ origin[i].end = cells[2]
       /\ inner[i].rect.width = 2 * size.cell_width

\* C14: a cell that continues the open run of k (the start's line and
\* foreground, flag k, the column after the last cell) appends nothing for k
\* and leaves the run's start; a cell without flag k leaves a closed run
\* closed and appends nothing for k; the last cell seen becomes the cell.
SilentStep ==
  Fed =>
    /\ last_cell' = Some(Received)
    /\ \A k \in DOMAIN last_starts :
         /\ ( /\ IsSome(last_starts[k]) /\ IsSome(last_cell)
              /\ Received.line = unwrap(last_starts[k]).line
              /\ contains(Received.flags, k)
              /\ Received.fg = unwrap(last_starts[k]).fg
              /\ Received.column = unwrap(last_cell).column + 1 )
            => (Appended(k) = {} /\ last_starts'[k] = last_starts[k])
         /\ (~IsSome(last_starts[k]) /\ ~contains(Received.flags, k))
            => (Appended(k) = {} /\ last_starts'[k] = None)
    /\ (\A k \in DOMAIN last_starts : Appended(k) = {}) => inner' = inner

SilentContinuation == [][SilentStep]_vars

SilentContinuationWitness ==
  /\ pc = "live"
  /\ Len(cells) = 3 /\ Len(pushed) = 0
  /\ UniformRun(UNDERLINE)
  /\ \A i \in 1..3 : ~contains(cells[i].flags, STRIKEOUT)
  /\ inner = <<>>
  /\ last_starts[UNDERLINE] = Some(cells[1])
  /\ last_starts[STRIKEOUT] = None
  /\ last_cell = Some(cells[3])


\* the other kind
OtherKind(k) == IF k = UNDERLINE THEN STRIKEOUT ELSE UNDERLINE

\* the stream with the other kind's flag taken from every cell: two streams
\* that differ only in the other kind's flag have the same one
Without(stream, k) ==
  [i \in DOMAIN stream |-> [stream[i] EXCEPT !.flags = @ \ {OtherKind(k)}]]

\* what a tracker value shows of kind k: whether its run is open and where it
\* started, and the rectangles of k in order
RECURSIVE KindRects(_, _, _)
KindRects(list, org, k) ==
  IF list = <<>> THEN <<>>
  ELSE LET rest == KindRects(Tail(list), Tail(org), k) IN
       IF Head(org).by # "push" /\ Head(org).flag = k
       THEN <<Head(list)>> \o rest ELSE rest

KindView(self, k) ==
  [open |-> IF IsSome(self.last_starts[k]) THEN unwrap(self.last_starts[k]).idx ELSE 0,
   rects |-> KindRects(self.inner, self.origin, k)]

\* the tracker value after the calls made so far, had the stream been other
\* and no push been made
After(stream) ==
  LET fed == Feed(new, order, stream, metrics, size) IN
  IF pc = "done" THEN rects(fed, order, metrics, size) ELSE fed

\* C15: the stream received and the stream without the other kind's flag
\* give kind k the same run state after every call and the same rectangles,
\* those of rects() included; so do any two streams that differ only in the
\* other kind's flag.
SameWithout ==
  pc # "panicked" =>
    \A k \in {UNDERLINE, STRIKEOUT} :
      KindView(After(Without(cells, k)), k) = KindView(Self, k)

PerKindIndependence == []SameWithout

PerKindIndependenceWitness ==
  /\ pc = "done"
  /\ Len(cells) = 3
  /\ UniformRun(UNDERLINE)
  /\ contains(cells[1].flags, STRIKEOUT)
  /\ ~contains(cells[2].flags, STRIKEOUT)
  /\ contains(cells[3].flags, STRIKEOUT)
  /\ Len(KindView(Self, UNDERLINE).rects) = 1
  /\ Len(KindView(Self, STRIKEOUT).rects) = 2


\* list a is a prefix of list b
IsPrefix(a, b) == Len(a) <= Len(b) /\ SubSeq(b, 1, Len(a)) = a

\* C16: the list is append-only: every step leaves the entries held before it
\* in place and unmodified at the front of the list, so the entries stay in
\* the order of the calls that made them and those of rects() come last.
AppendOnlyStep ==
  /\ IsPrefix(inner, inner')
  /\ IsPrefix(origin, origin')
  /\ Len(inner') = Len(origin')
  /\ Pushing => Len(inner') = Len(inner) + 1 /\ origin'[Len(origin')].by = "push"
  /\ Fed => \A i \in (Len(origin) + 1)..Len(origin') : origin'[i].by = "update_lines"
  /\ Flushed => \A i \in (Len(origin) + 1)..Len(origin') : origin'[i].by = "rects"

AccumulationOrder == [][AppendOnlyStep]_vars

AccumulationOrderWitness ==
  /\ pc = "done"
  /\ Len(inner) = 4
  /\ origin[1].by = "update_lines"
  /\ origin[2].by = "push"
  /\ origin[3].by = "rects" /\ origin[4].by = "rects"
  /\ inner[2] = pushed[1]

\* C17: every rectangle of a run has the foreground of the run's start, and
\* so has every cell received from the start of the run to its end.
ColourUniformity ==
  \A i \in DOMAIN origin :
    origin[i].by # "push" =>
      /\ inner[i].color = origin[i].start.fg
      /\ cells[origin[i].start.idx] = origin[i].start
      /\ cells[origin[i].end.idx] = origin[i].end
      /\ \A j \in origin[i].start.idx .. origin[i].end.idx :
           cells[j].fg = inner[i].color

ColourUniformityWitness ==
  /\ pc = "done"
  /\ Len(cells) = 3
  /\ cells[1].fg = "blue" /\ cells[2].fg = "blue" /\ cells[3].fg = "red"
  /\ \E i \in RunRects(origin, STRIKEOUT) :
       /\ origin[i].start = cells[1] /\ origin[i].end = cells[2]
       /\ inner[i].color = "blue"
  /\ \E i \in RunRects(origin, STRIKEOUT) :
       origin[i].start = cells[3] /\ inner[i].color = "red"


\* the tracker value after the cells received and rects(), had last_starts
\* been iterated in the order ord (the pairs of push left out)
AfterIn(ord) ==
  rects(Feed(new, ord, cells, metrics, size), ord, metrics, size)

\* the call that appended a rectangle of a run: the number of the
\* update_lines call, or 0 for rects()
CallOf(e) == IF e.by = "rects" THEN 0 ELSE e.end.idx + 1

\* the calls that appended the rectangles of runs, in the order of the list
RECURSIVE CallsOf(_)
CallsOf(org) ==
  IF org = <<>> THEN <<>>
  ELSE IF Head(org).by = "push" THEN CallsOf(Tail(org))
       ELSE <<CallOf(Head(org))>> \o CallsOf(Tail(org))

\* C18: in every other order of visiting the kinds, rects() returns the same
\* rectangles as in the order of this tracker: each kind has the same
\* rectangles in the same order and each call appended as many, so the lists
\* differ at most in the order of the kinds within one call, and no rectangle
\* is lost or duplicated.
SameInEveryOrder ==
  pc = "done" =>
    \A ord \in Orders(DOMAIN last_starts) \ {order} :
      LET other == AfterIn(ord) IN
      /\ \A k \in DOMAIN last_starts :
           KindRects(other.inner, other.origin, k) = KindRects(inner, origin, k)
      /\ CallsOf(other.origin) = CallsOf(origin)
      /\ Len(other.inner) + Len(pushed) = Len(inner)
      /\ other.last_starts = last_starts

OrderIndependence == []SameInEveryOrder

OrderIndependenceWitness ==
  /\ pc = "done"
  /\ order = <<STRIKEOUT, UNDERLINE>>
  /\ Len(cells) = 3
  /\ Len(inner) = 4
  /\ origin[1].flag = STRIKEOUT /\ origin[2].flag = UNDERLINE
  /\ origin[1].by = "update_lines" /\ origin[2].by = "update_lines"
  /\ origin[3].flag = STRIKEOUT /\ origin[4].flag = UNDERLINE
  /\ AfterIn(<<UNDERLINE, STRIKEOUT>>).origin[1].flag = UNDERLINE


\* the stream is row-major: lines do not decrease, and columns increase
\* within a line
RowMajor ==
  \A i \in DOMAIN cells :
    i > 1 =>
      \/ cells[i - 1].line < cells[i].line
      \/ cells[i - 1].line = cells[i].line /\ cells[i - 1].column < cells[i].column

\* the rectangles of kind k that cover the place of cell c: the left edge of
\* the cell is within the rectangle and the rectangle is in the cell's row
Covering(k, c) ==
  { i \in RunRects(origin, k) :
      /\ inner[i].rect.x <= LeftOf(c.column)
      /\ LeftOf(c.column) < inner[i].rect.x + inner[i].rect.width
      /\ inner[i].rect.y - size.padding_y >= c.line * size.cell_height
      /\ inner[i].rect.y - size.padding_y < (c.line + 1) * size.cell_height }

\* C19: after rects() on a row-major stream, every cell with flag k is
\* covered by exactly one rectangle of k of its line and no cell without flag
\* k is covered by any; the rectangles of k of one line do not overlap.
ExactCover ==
  (pc = "done" /\ RowMajor) =>
    \A k \in DOMAIN last_starts :
      /\ \A j \in DOMAIN cells :
           Cardinality(Covering(k, cells[j]))
             = IF contains(cells[j].flags, k) THEN 1 ELSE 0
      /\ \A a, b \in RunRects(origin, k) :
           (a # b /\ origin[a].start.line = origin[b].start.line) =>
             \/ inner[a].rect.x + inner[a].rect.width <= inner[b].rect.x
             \/ inner[b].rect.x + inner[b].rect.width <= inner[a].rect.x

ExactCoverWitness ==
  /\ pc = "done"
  /\ RowMajor
  /\ Len(cells) = 3
  /\ cells[1].line = 0 /\ cells[2].line = 0 /\ cells[3].line = 1
  /\ cells[1].column = 1 /\ cells[2].column = 2 /\ cells[3].column = 0
  /\ cells[1].fg = "red" /\ cells[2].fg = "red"
  /\ contains(cells[1].flags, UNDERLINE)
  /\ contains(cells[2].flags, UNDERLINE)
  /\ ~contains(cells[3].flags, UNDERLINE)
  /\ Covering(UNDERLINE, cells[1]) = Covering(UNDERLINE, cells[2])
  /\ Cardinality(Covering(UNDERLINE, cells[1])) = 1

\* C20: for every stream, the end of every rectangle of a run is on the line
\* of its start and not left of it, and the width of the rectangle is the
\* number of cells of the run times cell_width, at least one cell.
WellFormedSpan ==
  \A i \in DOMAIN origin :
    origin[i].by # "push" =>
      /\ origin[i].end.line = origin[i].start.line
      /\ origin[i].end.column >= origin[i].start.column
      /\ inner[i].rect.width >= size.cell_width
      /\ inner[i].rect.width
           = (origin[i].end.idx - origin[i].start.idx + 1) * size.cell_width

WellFormedSpanWitness ==
  /\ pc = "done"
  /\ Len(cells) = 3
  /\ cells[1].line = 1 /\ cells[2].line = 0 /\ cells[3].line = 0
  /\ cells[1].column = 2 /\ cells[2].column = 1 /\ cells[3].column = 1
  /\ \A j \in 1..3 : cells[j].fg = "red" /\ contains(cells[j].flags, UNDERLINE)
  /\ Cardinality(RunRects(origin, UNDERLINE)) = 3

====
